---- MODULE Spec2Model ----
(***************************************************************************)
(* A model of calibrate_hcp.c, the Gwyddion module that calibrates the     *)
(* lateral scale of an SPM image against a known HCP lattice.              *)
(*                                                                         *)
(* The state is the host application (its current data field, the          *)
(* channels the module appended, the settings store) and one dialog        *)
(* session (ThresholdArgs, the point selection, the peaks p[2][3], the     *)
(* data fields the dialog owns).  There is one action per GTK callback.    *)
(*                                                                         *)
(* A gdouble is modelled exactly: a NaN, an infinity, a negative zero, a   *)
(* rational, or the square root of a rational.  Rounding error of the      *)
(* binary format is not modelled.                                          *)
(***************************************************************************)
EXTENDS Integers, Sequences, FiniteSets, TLC

(***************************************************************************)
(* gdouble                                                                 *)
(* A finite value is  sign(n) * (|n|/d)^(1/rt)  with d > 0, rt in {1,2},   *)
(* kept in lowest terms, and with rt = 1 whenever the value is rational.   *)
(***************************************************************************)
Abs(x) == IF x < 0 THEN -x ELSE x

RECURSIVE GCD(_, _)
GCD(a, b) == IF b = 0 THEN a ELSE GCD(b, a % b)

RECURSIVE ISqrtFrom(_, _)
ISqrtFrom(m, r) == IF (r + 1) * (r + 1) > m THEN r ELSE ISqrtFrom(m, r + 1)

ISqrt(m) == ISqrtFrom(m, 0)

IsSquare(m) == ISqrt(m) * ISqrt(m) = m

NaN == [k |-> "nan", n |-> 0, d |-> 1, rt |-> 1]

PInf == [k |-> "pinf", n |-> 0, d |-> 1, rt |-> 1]

NInf == [k |-> "ninf", n |-> 0, d |-> 1, rt |-> 1]

NZero == [k |-> "nzero", n |-> 0, d |-> 1, rt |-> 1]

\* A value the representation cannot hold (a sum with an irrational term).
Unrep == [k |-> "unrep", n |-> 0, d |-> 1, rt |-> 1]

MkRat(n, d) ==
    LET s == IF d < 0 THEN -1 ELSE 1
        g == GCD(Abs(n), Abs(d))
    IN  [k |-> "fin", n |-> (s * n) \div g, d |-> (s * d) \div g, rt |-> 1]

DInt(i) == MkRat(i, 1)

DZero == DInt(0)

\* sqrt(n/d) for n >= 0, d > 0.
MkRoot(n, d) ==
    LET g == GCD(n, d)
        nn == n \div g
        dd == d \div g
    IN  IF IsSquare(nn) /\ IsSquare(dd)
        THEN MkRat(ISqrt(nn), ISqrt(dd))
        ELSE [k |-> "fin", n |-> nn, d |-> dd, rt |-> 2]

DIsNaN(a) == a.k = "nan"

DIsInf(a) == a.k \in {"pinf", "ninf"}

DIsZero(a) == a.k = "nzero" \/ (a.k = "fin" /\ a.n = 0)

DIsFinite(a) == a.k \in {"fin", "nzero"}

DSign(a) == IF a.k \in {"ninf", "nzero"} \/ (a.k = "fin" /\ a.n < 0) THEN -1 ELSE 1

DNeg(a) ==
    CASE a.k = "pinf" -> NInf
      [] a.k = "ninf" -> PInf
      [] a.k = "nzero" -> DZero
      [] a.k = "fin" -> IF a.n = 0 THEN NZero ELSE [a EXCEPT !.n = -a.n]
      [] OTHER -> a

SignedInf(s) == IF s < 0 THEN NInf ELSE PInf

SignedZero(s) == IF s < 0 THEN NZero ELSE DZero

\* The square of a finite nonzero value, as <<numerator, denominator>>.
SqOf(a) == IF a.rt = 1 THEN <<a.n * a.n, a.d * a.d>> ELSE <<Abs(a.n), a.d>>

SignedRoot(s, n, d) == IF s < 0 THEN DNeg(MkRoot(n, d)) ELSE MkRoot(n, d)

DMul(a, b) ==
    LET s == DSign(a) * DSign(b) IN
    CASE a.k = "unrep" \/ b.k = "unrep" -> Unrep
      [] DIsNaN(a) \/ DIsNaN(b) -> NaN
      [] (DIsInf(a) /\ DIsZero(b)) \/ (DIsZero(a) /\ DIsInf(b)) -> NaN
      [] DIsInf(a) \/ DIsInf(b) -> SignedInf(s)
      [] DIsZero(a) \/ DIsZero(b) -> SignedZero(s)
      [] a.rt = 1 /\ b.rt = 1 -> MkRat(a.n * b.n, a.d * b.d)
      [] OTHER -> SignedRoot(s, SqOf(a)[1] * SqOf(b)[1], SqOf(a)[2] * SqOf(b)[2])

DDiv(a, b) ==
    LET s == DSign(a) * DSign(b) IN
    CASE a.k = "unrep" \/ b.k = "unrep" -> Unrep
      [] DIsNaN(a) \/ DIsNaN(b) -> NaN
      [] (DIsInf(a) /\ DIsInf(b)) \/ (DIsZero(a) /\ DIsZero(b)) -> NaN
      [] DIsInf(a) \/ DIsZero(b) -> SignedInf(s)
      [] DIsInf(b) \/ DIsZero(a) -> SignedZero(s)
      [] a.rt = 1 /\ b.rt = 1 -> MkRat(a.n * b.d, a.d * b.n)
      [] OTHER -> SignedRoot(s, SqOf(a)[1] * SqOf(b)[2], SqOf(a)[2] * SqOf(b)[1])

DAdd(a, b) ==
    CASE a.k = "unrep" \/ b.k = "unrep" -> Unrep
      [] DIsNaN(a) \/ DIsNaN(b) -> NaN
      [] DIsInf(a) /\ DIsInf(b) -> IF a.k = b.k THEN a ELSE NaN
      [] DIsInf(a) -> a
      [] DIsInf(b) -> b
      [] DIsZero(a) /\ DIsZero(b) -> IF a.k = "nzero" /\ b.k = "nzero" THEN NZero ELSE DZero
      [] DIsZero(a) -> b
      [] DIsZero(b) -> a
      [] a.rt = 1 /\ b.rt = 1 -> MkRat(a.n * b.d + b.n * a.d, a.d * b.d)
      [] OTHER -> Unrep

DSub(a, b) == DAdd(a, DNeg(b))

DSqrt(a) ==
    CASE a.k \in {"unrep", "nan", "pinf", "nzero"} -> a
      [] a.k = "ninf" -> NaN
      [] a.n < 0 -> NaN
      [] a.rt = 1 -> MkRoot(a.n, a.d)
      [] OTHER -> Unrep

\* The C comparisons ==, < on gdouble: false whenever an operand is a NaN.
DEq(a, b) == /\ ~DIsNaN(a)
             /\ ~DIsNaN(b)
             /\ \/ (DIsZero(a) /\ DIsZero(b))
                \/ a = b

\* -1, 0 or 1 for a finite or infinite value.
SignClass(a) == IF DIsZero(a) THEN 0 ELSE DSign(a)

DLt(a, b) ==
    CASE DIsNaN(a) \/ DIsNaN(b) -> FALSE
      [] DEq(a, b) -> FALSE
      [] a.k = "ninf" \/ b.k = "pinf" -> TRUE
      [] a.k = "pinf" \/ b.k = "ninf" -> FALSE
      [] SignClass(a) # SignClass(b) -> SignClass(a) < SignClass(b)
      [] a.rt = 1 /\ b.rt = 1 -> a.n * b.d < b.n * a.d
      [] SignClass(a) > 0 -> SqOf(a)[1] * SqOf(b)[2] < SqOf(b)[1] * SqOf(a)[2]
      [] OTHER -> SqOf(a)[1] * SqOf(b)[2] > SqOf(b)[1] * SqOf(a)[2]

DGt(a, b) == DLt(b, a)

DLe(a, b) == DLt(a, b) \/ DEq(a, b)

DGe(a, b) == DLe(b, a)

DMin(a, b) == IF DLt(a, b) THEN a ELSE b

DMax(a, b) == IF DGt(a, b) THEN a ELSE b


(***************************************************************************)
(* (gint) conversion of a gdouble, and GWY_ROUND.                          *)
(* The conversion of a NaN, an infinity or a value outside gint is         *)
(* undefined behaviour.  The builds differ: cvttsd2si (x86) yields         *)
(* G_MININT, fcvtzs (ARM) yields 0 for a NaN and saturates otherwise.      *)
(***************************************************************************)
G_MININT == -2147483647 - 1

G_MAXINT == 2147483647

\* floor of a finite rational
FloorRat(a) == a.n \div a.d

\* truncation toward zero of a finite rational
TruncRat(a) == IF a.n < 0 THEN -((-a.n) \div a.d) ELSE a.n \div a.d

\* floor(x + 0.5) for a finite x >= 0 that is a root: the n with
\* (2n-1)^2 <= 4 x^2 < (2n+1)^2, or 0 when 4 x^2 < 1.
RECURSIVE RoundRootFrom(_, _, _)
RoundRootFrom(sn, sd, n) ==
    IF 4 * sn < (2 * n + 1) * (2 * n + 1) * sd THEN n ELSE RoundRootFrom(sn, sd, n + 1)

\* floor(sqrt(sn/sd)): the largest n with n^2 * sd <= sn.
RECURSIVE FloorRootFrom(_, _, _)
FloorRootFrom(sn, sd, n) ==
    IF (n + 1) * (n + 1) * sd > sn THEN n ELSE FloorRootFrom(sn, sd, n + 1)

\* The outcomes of (gint)x.
GintOutcomes(x) ==
    CASE x.k = "fin" /\ x.rt = 1 -> {TruncRat(x)}
      [] x.k = "fin" /\ x.n > 0 -> {FloorRootFrom(SqOf(x)[1], SqOf(x)[2], 0)}
      [] x.k = "fin" -> {-FloorRootFrom(SqOf(x)[1], SqOf(x)[2], 0)}
      [] x.k = "nzero" -> {0}
      [] x.k = "pinf" -> {G_MININT, G_MAXINT}
      [] x.k = "ninf" -> {G_MININT}
      [] OTHER -> {G_MININT, 0}

\* The outcomes of GWY_ROUND(x) = (gint)floor(x + 0.5).
GWY_ROUND(x) ==
    CASE x.k = "fin" /\ x.rt = 1 -> {FloorRat(DAdd(x, MkRat(1, 2)))}
      [] x.k = "fin" /\ x.n > 0 -> {RoundRootFrom(SqOf(x)[1], SqOf(x)[2], 0)}
      [] x.k = "fin" -> {-RoundRootFrom(SqOf(x)[1], SqOf(x)[2], 0)}
      [] x.k = "nzero" -> {0}
      [] x.k = "pinf" -> {G_MININT, G_MAXINT}
      [] x.k = "ninf" -> {G_MININT}
      [] OTHER -> {G_MININT, 0}

(***************************************************************************)
(* GwyDataField                                                            *)
(* [xres, yres, xreal, yreal, xoff, yoff, unit, data]: data is row-major,  *)
(* data[row*xres + col + 1]; unit is the power of the lateral unit.        *)
(* NoField stands for NULL.                                                *)
(***************************************************************************)
NoField == [xres |-> 0, yres |-> 0, xreal |-> DZero, yreal |-> DZero,
            xoff |-> DZero, yoff |-> DZero, unit |-> 0, data |-> <<>>]

gwy_data_field_inside(f, col, row) ==
    col >= 0 /\ col < f.xres /\ row >= 0 /\ row < f.yres

\* gwy_data_field_get_val: g_return_val_if_fail(inside, 0.0)
gwy_data_field_get_val(f, col, row) ==
    IF gwy_data_field_inside(f, col, row) THEN f.data[row * f.xres + col + 1] ELSE DZero

\* pixel -> physical: col * xreal/xres (col is a gdouble)
gwy_data_field_jtor(f, col) == DDiv(DMul(col, f.xreal), DInt(f.xres))

gwy_data_field_itor(f, row) == DDiv(DMul(row, f.yreal), DInt(f.yres))

\* physical -> pixel: x/xreal * xres
gwy_data_field_rtoj(f, x) == DMul(DDiv(x, f.xreal), DInt(f.xres))

gwy_data_field_rtoi(f, y) == DMul(DDiv(y, f.yreal), DInt(f.yres))

gwy_data_field_get_xmeasure(f) == DDiv(f.xreal, DInt(f.xres))

gwy_data_field_get_ymeasure(f) == DDiv(f.yreal, DInt(f.yres))

RECURSIVE SeqMin(_, _, _)
SeqMin(s, i, m) == IF i > Len(s) THEN m ELSE SeqMin(s, i + 1, IF DLt(s[i], m) THEN s[i] ELSE m)

RECURSIVE SeqMax(_, _, _)
SeqMax(s, i, m) == IF i > Len(s) THEN m ELSE SeqMax(s, i + 1, IF DGt(s[i], m) THEN s[i] ELSE m)

\* gwy_data_field_get_min_max
gwy_data_field_get_min(f) == SeqMin(f.data, 2, f.data[1])

gwy_data_field_get_max(f) == SeqMax(f.data, 2, f.data[1])

gwy_data_field_add(f, c) ==
    [f EXCEPT !.data = [i \in 1..Len(f.data) |-> DAdd(f.data[i], c)]]

\* gwy_data_field_clamp(f, bottom, top)
gwy_data_field_clamp(f, bottom, top) ==
    [f EXCEPT !.data = [i \in 1..Len(f.data) |->
        IF DLt(f.data[i], bottom) THEN bottom
        ELSE IF DGt(f.data[i], top) THEN top
        ELSE f.data[i]]]

\* gwy_data_field_copy(src, dest, FALSE): the samples and the physical
\* size; dest keeps its offsets and units.
gwy_data_field_copy(src, dest) ==
    [dest EXCEPT !.data = src.data, !.xreal = src.xreal, !.yreal = src.yreal]

\* gwy_data_field_area_extract(f, col, row, width, height)
gwy_data_field_area_extract(f, col, row, width, height) ==
    [xres |-> width, yres |-> height,
     xreal |-> DDiv(DMul(DInt(width), f.xreal), DInt(f.xres)),
     yreal |-> DDiv(DMul(DInt(height), f.yreal), DInt(f.yres)),
     xoff |-> DZero, yoff |-> DZero, unit |-> f.unit,
     data |-> [i \in 1..(width * height) |->
                 gwy_data_field_get_val(f, col + ((i - 1) % width), row + ((i - 1) \div width))]]

Clamp(i, lo, hi) == IF i < lo THEN lo ELSE IF i > hi THEN hi ELSE i

\* Linear interpolation along one axis: the sample of the new pixel i of n
\* lies at x = (i + 1/2)*m/n - 1/2 in old pixels; beyond the border the
\* border sample is used.
LinPos(i, m, n) == ((2 * i + 1) * m - n) \div (2 * n)

LinFrac(i, m, n) == MkRat(((2 * i + 1) * m - n) - LinPos(i, m, n) * 2 * n, 2 * n)

Lerp(a, v0, v1) == DAdd(DMul(DSub(DInt(1), a), v0), DMul(a, v1))

\* gwy_data_field_resample(f, xres, yres, GWY_INTERPOLATION_BILINEAR)
gwy_data_field_resample(f, xres, yres) ==
    IF f.xres = xres /\ f.yres = yres THEN f
    ELSE [f EXCEPT !.xres = xres, !.yres = yres,
          !.data = [k \in 1..(xres * yres) |->
            LET i == (k - 1) % xres
                j == (k - 1) \div xres
                c0 == LinPos(i, f.xres, xres)
                r0 == LinPos(j, f.yres, yres)
                a == LinFrac(i, f.xres, xres)
                b == LinFrac(j, f.yres, yres)
                V(c, r) == gwy_data_field_get_val(f, Clamp(c, 0, f.xres - 1), Clamp(r, 0, f.yres - 1))
            IN  Lerp(b, Lerp(a, V(c0, r0), V(c0 + 1, r0)),
                        Lerp(a, V(c0, r0 + 1), V(c0 + 1, r0 + 1)))]]

\* gwy_data_field_2dfft_humanize: the sample (0,0) moves to (xres/2, yres/2)
gwy_data_field_2dfft_humanize(f) ==
    [f EXCEPT !.data = [k \in 1..(f.xres * f.yres) |->
        LET i == (k - 1) % f.xres
            j == (k - 1) \div f.xres
        IN  gwy_data_field_get_val(f, (i + f.xres - f.xres \div 2) % f.xres,
                                      (j + f.yres - f.yres \div 2) % f.yres)]]

(***************************************************************************)
(* The module's own functions.  Lengths are in nanometres: the default     *)
(* lattice constant 0.000000001 m is DInt(1).                              *)
(***************************************************************************)
ZOOM_1 == 1

ZOOM_2 == 2

threshold_defaults ==
    [lower |-> DZero, upper |-> DZero, lattice |-> DInt(1),
     Xscale |-> DInt(1), Yscale |-> DInt(1),
     Xwarning |-> FALSE, Ywarning |-> FALSE, zoom_mode |-> ZOOM_1]

\* hypot(re, im) of set_dfield_modulus
hypot(re, im) == DSqrt(DAdd(DMul(re, re), DMul(im, im)))

\* set_dfield_modulus(re, im, target): re and im are the sample sequences
\* gwy_data_field_2dfft wrote.
set_dfield_modulus(re, im, target) ==
    [target EXCEPT !.data = [i \in 1..(target.xres * target.yres) |-> hypot(re[i], im[i])]]

\* fft_postprocess: gwy_si_unit_power(xyunit, -1, xyunit)
fft_unit_power(f) == [f EXCEPT !.unit = -f.unit]

\* fft_postprocess: set_xreal and set_yreal
fft_set_reals(f) ==
    [f EXCEPT !.xreal = DDiv(DInt(1), gwy_data_field_get_xmeasure(f)),
              !.yreal = DDiv(DInt(1), gwy_data_field_get_ymeasure(f))]

\* fft_postprocess: set_xoffset and set_yoffset
fft_set_offsets(f) ==
    [f EXCEPT !.xoff = DNeg(gwy_data_field_jtor(f, MkRat(f.xres, 2))),
              !.yoff = DNeg(gwy_data_field_itor(f, MkRat(f.yres, 2)))]

\* fft_postprocess: gwy_data_field_add(dfield, -dmin)
fft_subtract_min(f) == gwy_data_field_add(f, DNeg(gwy_data_field_get_min(f)))

fft_postprocess(dfield) ==
    fft_subtract_min(fft_set_offsets(fft_set_reals(fft_unit_power(
        gwy_data_field_2dfft_humanize(dfield)))))

\* perform_fft(dfield, data) given what gwy_data_field_2dfft returned
perform_fft(dfield, re, im) == fft_postprocess(set_dfield_modulus(re, im, dfield))

\* threshold_do(args, dfield)
threshold_do(a, dfield) ==
    gwy_data_field_clamp(dfield, DMin(a.lower, a.upper), DMax(a.lower, a.upper))

\* x | 1
BitOr1(x) == IF x % 2 = 0 THEN x + 1 ELSE x

\* preview(): width and height of the area extracted for a zoom
preview_width(offt, zoom) == BitOr1(offt.xres \div zoom)

preview_height(offt, zoom) == BitOr1(offt.yres \div zoom)

\* preview(): its first column and row, (Xres - width)/2 and (Yres - height)/2
preview_col(offt, zoom) == (offt.xres - preview_width(offt, zoom)) \div 2

preview_row(offt, zoom) == (offt.yres - preview_height(offt, zoom)) \div 2

\* preview(), the part that rebuilds disp_data from offt
preview_disp(a, offt, disp) ==
    LET zoom == a.zoom_mode
        temp == gwy_data_field_resample(
                    gwy_data_field_area_extract(offt, preview_col(offt, zoom),
                                                preview_row(offt, zoom),
                                                preview_width(offt, zoom),
                                                preview_height(offt, zoom)),
                    offt.xres, offt.yres)
        d == IF zoom # ZOOM_1 THEN gwy_data_field_copy(temp, disp)
                              ELSE gwy_data_field_copy(offt, disp)
    IN  [d EXCEPT !.xreal = DDiv(offt.xreal, DInt(zoom)),
                  !.yreal = DDiv(offt.yreal, DInt(zoom)),
                  !.xoff = DDiv(offt.xoff, DInt(zoom)),
                  !.yoff = DDiv(offt.yoff, DInt(zoom)),
                  !.unit = offt.unit]

\* preview(), the part that refreshes the displayed field "/0/data"
preview_view(a, disp, view) == threshold_do(a, gwy_data_field_copy(disp, view))

(***************************************************************************)
(* Lattice solver: calibration_get_factors                                 *)
(***************************************************************************)
solver_R(lattice) == DDiv(DInt(2), DMul(DSqrt(DInt(3)), lattice))

\* x1_2 * y2_2 - x2_2 * y1_2
solver_det(x1, y1, x2, y2) ==
    DSub(DMul(DMul(x1, x1), DMul(y2, y2)), DMul(DMul(x2, x2), DMul(y1, y1)))

solver_ycorr(lattice, x1, y1, x2, y2) ==
    DMul(solver_R(lattice),
         DSqrt(DDiv(DSub(DMul(x1, x1), DMul(x2, x2)), solver_det(x1, y1, x2, y2))))

\* solver_xcorr dividing by x2_2
solver_xcorr_by_x2(lattice, x1, y1, x2, y2) ==
    LET R == solver_R(lattice)
        ycorr == solver_ycorr(lattice, x1, y1, x2, y2)
    IN  DSqrt(DDiv(DSub(DMul(R, R), DMul(DMul(ycorr, ycorr), DMul(y1, y1))), DMul(x2, x2)))

solver_xcorr(lattice, x1, y1, x2, y2) ==
    LET R == solver_R(lattice)
        ycorr == solver_ycorr(lattice, x1, y1, x2, y2)
    IN  DSqrt(DDiv(DSub(DMul(R, R), DMul(DMul(ycorr, ycorr), DMul(y1, y1))), DMul(x1, x1)))

solver_Xwarning(Xscale, x1, y1, x2, y2) ==
    \/ DEq(DMul(x1, x1), DMul(x2, x2))
    \/ DEq(DMul(x1, x1), DZero)
    \/ ~DEq(Xscale, Xscale)
    \/ DEq(DMul(DMul(x1, x1), DMul(y2, y2)), DMul(DMul(x2, x2), DMul(y1, y1)))

solver_Ywarning(Yscale, x1, y1, x2, y2) ==
    \/ DEq(DMul(y1, y1), DMul(y2, y2))
    \/ ~DEq(Yscale, Yscale)
    \/ DEq(DMul(DMul(x1, x1), DMul(y2, y2)), DMul(DMul(x2, x2), DMul(y1, y1)))

\* calibration_get_factors without the two assignments of FALSE
calibration_get_factors_keeping_flags(a, x1, y1, x2, y2) ==
    LET Xs == DDiv(DInt(1), solver_xcorr(a.lattice, x1, y1, x2, y2))
        Ys == DDiv(DInt(1), solver_ycorr(a.lattice, x1, y1, x2, y2))
    IN  [a EXCEPT !.Xscale = Xs, !.Yscale = Ys,
                  !.Xwarning = a.Xwarning \/ solver_Xwarning(Xs, x1, y1, x2, y2),
                  !.Ywarning = a.Ywarning \/ solver_Ywarning(Ys, x1, y1, x2, y2)]

\* calibration_get_factors with x1 = p[0][0], y1 = p[0][1], x2 = p[1][0], y2 = p[1][1]
calibration_get_factors(a, x1, y1, x2, y2) ==
    LET Xs == DDiv(DInt(1), solver_xcorr(a.lattice, x1, y1, x2, y2))
        Ys == DDiv(DInt(1), solver_ycorr(a.lattice, x1, y1, x2, y2))
    IN  [a EXCEPT !.Xscale = Xs, !.Yscale = Ys,
                  !.Xwarning = solver_Xwarning(Xs, x1, y1, x2, y2),
                  !.Ywarning = solver_Ywarning(Ys, x1, y1, x2, y2)]

(***************************************************************************)
(* The dialog's callbacks, as functions of the ThresholdControls           *)
(*   c = [args, rpx, sel, p, disp, view, crashed, oob, changed]            *)
(* sel is the GwySelection (at most 2 points <<x, y>> in the coordinates   *)
(* of the displayed field), p the peaks p[2][3].  A callback returns the   *)
(* set of its outcomes: more than one where the C is undefined.  oob       *)
(* records that peak_find has asked gwy_data_field_get_val for a sample    *)
(* outside the field, changed that peak_find has handed a point back to    *)
(* the selection, which emits the selection's "changed" signal.            *)
(***************************************************************************)
COLUMN_I == 0

COLUMN_X == 1

COLUMN_Y == 2

COLUMN_Z == 3

\* gwy_selection_set_max_objects(controls.selection, 2)
MaxObjects == 2

\* p[idx] before peak_find has written it: controls is an automatic variable
UninitPeak == <<Unrep, Unrep, Unrep>>

\* What a read of an uninitialised p[idx] may yield.
GarbagePeaks == {<<DZero, DZero, DZero>>, <<NaN, NaN, NaN>>}

\* p[idx] as read, g being what uninitialised memory yields
ReadPeak(c, idx, g) == IF c.p[idx + 1] = UninitPeak THEN g[idx + 1] ELSE c.p[idx + 1]

gwy_selection_is_full(sel) == Len(sel) = MaxObjects

\* The scan of peak_find with the loops exchanged: the rows are the outer
\* loop.  i0 is low_i.
RECURSIVE peak_scan_rows(_, _, _, _, _, _, _)
peak_scan_rows(f, i0, i, j, high_i, high_j, best) ==
    IF j >= high_j THEN best
    ELSE IF i >= high_i THEN peak_scan_rows(f, i0, i0, j + 1, high_i, high_j, best)
    ELSE peak_scan_rows(f, i0, i + 1, j, high_i, high_j,
                        IF DGt(gwy_data_field_get_val(f, i, j), best[3])
                        THEN <<i, j, gwy_data_field_get_val(f, i, j)>> ELSE best)

peak_scan_rows_outer(f, i, j, low_j, high_i, high_j, best) ==
    peak_scan_rows(f, i, i, j, high_i, high_j, best)

\* The scan of peak_find: i runs over the columns, j over the rows, and a
\* sample replaces the maximum only when it is greater.  best = <<i, j, z>>.
RECURSIVE peak_scan(_, _, _, _, _, _, _)
peak_scan(f, i, j, low_j, high_i, high_j, best) ==
    IF i >= high_i THEN best
    ELSE IF j >= high_j THEN peak_scan(f, i + 1, low_j, low_j, high_i, high_j, best)
    ELSE peak_scan(f, i, j + 1, low_j, high_i, high_j,
                   IF DGt(gwy_data_field_get_val(f, i, j), best[3])
                   THEN <<i, j, gwy_data_field_get_val(f, i, j)>> ELSE best)

\* peak_find searching a radius of at least one pixel
peak_find_at_radius_at_least_1(c, idx, col, row) ==
    LET f == c.disp
        r == IF c.rpx < 1 THEN 1 ELSE c.rpx
        low_i == IF col - r < 0 THEN 0 ELSE col - r
        high_i == IF col + r > f.xres THEN f.xres ELSE col + r
        low_j == IF row - r < 0 THEN 0 ELSE row - r
        high_j == IF row + r > f.yres THEN f.yres ELSE row + r
        best == peak_scan(f, low_i, low_j, low_j, high_i, high_j,
                          <<col, row, gwy_data_field_get_val(f, col, row)>>)
        px == gwy_data_field_jtor(f, DInt(best[1]))
        py == gwy_data_field_itor(f, DInt(best[2]))
        found == [c EXCEPT !.p[idx + 1] = <<DAdd(px, f.xoff), DAdd(py, f.yoff), best[3]>>,
                           !.oob = @ \/ ~gwy_data_field_inside(f, col, row)]
    IN  IF row - best[2] # 0 \/ col - best[1] # 0
        THEN [found EXCEPT !.sel[idx + 1] = <<px, py>>, !.changed = TRUE]
        ELSE found

\* peak_find handing the point back to the selection on every call
peak_find_at_always_set_object(c, idx, col, row) ==
    LET f == c.disp
        r == c.rpx
        low_i == IF col - r < 0 THEN 0 ELSE col - r
        high_i == IF col + r > f.xres THEN f.xres ELSE col + r
        low_j == IF row - r < 0 THEN 0 ELSE row - r
        high_j == IF row + r > f.yres THEN f.yres ELSE row + r
        best == peak_scan(f, low_i, low_j, low_j, high_i, high_j,
                          <<col, row, gwy_data_field_get_val(f, col, row)>>)
        px == gwy_data_field_jtor(f, DInt(best[1]))
        py == gwy_data_field_itor(f, DInt(best[2]))
        found == [c EXCEPT !.p[idx + 1] = <<DAdd(px, f.xoff), DAdd(py, f.yoff), best[3]>>,
                           !.oob = @ \/ ~gwy_data_field_inside(f, col, row)]
    IN  [found EXCEPT !.sel[idx + 1] = <<px, py>>, !.changed = TRUE]

\* peak_find once col and row are known
peak_find_at(c, idx, col, row) ==
    LET f == c.disp
        r == c.rpx
        low_i == IF col - r < 0 THEN 0 ELSE col - r
        high_i == IF col + r > f.xres THEN f.xres ELSE col + r
        low_j == IF row - r < 0 THEN 0 ELSE row - r
        high_j == IF row + r > f.yres THEN f.yres ELSE row + r
        best == peak_scan(f, low_i, low_j, low_j, high_i, high_j,
                          <<col, row, gwy_data_field_get_val(f, col, row)>>)
        px == gwy_data_field_jtor(f, DInt(best[1]))
        py == gwy_data_field_itor(f, DInt(best[2]))
        found == [c EXCEPT !.p[idx + 1] = <<DAdd(px, f.xoff), DAdd(py, f.yoff), best[3]>>,
                           !.oob = @ \/ ~gwy_data_field_inside(f, col, row)]
    IN  IF row - best[2] # 0 \/ col - best[1] # 0
        THEN [found EXCEPT !.sel[idx + 1] = <<px, py>>, !.changed = TRUE]
        ELSE found

\* peak_find(controls, point, idx).  (gint) of a NaN is undefined; where it
\* yields G_MININT, col - r overflows, which is undefined again: the model
\* follows the program no further and marks the controls crashed.
peak_find(c, point, idx) ==
    { IF col \in {G_MININT, G_MAXINT} \/ row \in {G_MININT, G_MAXINT}
      THEN [c EXCEPT !.crashed = TRUE, !.oob = TRUE]
      ELSE peak_find_at(c, idx, col, row) :
        col \in GintOutcomes(gwy_data_field_rtoj(c.disp, point[1])),
        row \in GintOutcomes(gwy_data_field_rtoi(c.disp, point[2])) }

check_warnings(a) == a.Xwarning \/ a.Ywarning

\* calibrate_update_scales
calibrate_update_scales(c, g) ==
    IF gwy_selection_is_full(c.sel)
    THEN [c EXCEPT !.args = calibration_get_factors(c.args,
                        ReadPeak(c, 0, g)[1], ReadPeak(c, 0, g)[2],
                        ReadPeak(c, 1, g)[1], ReadPeak(c, 1, g)[2])]
    ELSE [c EXCEPT !.args.Xscale = DZero, !.args.Yscale = DZero,
                   !.args.Xwarning = FALSE, !.args.Ywarning = FALSE]

\* gwy_tool_level3_render_cell for column id of row idx
gwy_tool_level3_render_cell(c, id, idx, g) ==
    IF id = COLUMN_I \/ idx >= Len(c.sel) THEN {c}
    ELSE IF id = COLUMN_X
    THEN { IF d.crashed THEN d ELSE calibrate_update_scales(d, g) :
             d \in peak_find(c, c.sel[idx + 1], idx) }
    ELSE {calibrate_update_scales(c, g)}

\* preview() on the controls
preview(c, offt) ==
    LET d == preview_disp(c.args, offt, c.disp)
    IN  [c EXCEPT !.disp = d, !.view = preview_view(c.args, d, c.view)]

\* One turn of the loop of reFind_Peaks, for the selection object i
reFind_one(c, i) ==
    { IF d.crashed THEN d
      ELSE [d EXCEPT !.sel[i + 1] = <<DSub(d.p[i + 1][1], d.disp.xoff),
                                      DSub(d.p[i + 1][2], d.disp.yoff)>>] :
        d \in peak_find(c, c.sel[i + 1], i) }

RECURSIVE reFind_from(_, _)
reFind_from(cs, i) ==
    IF \A c \in cs : c.crashed \/ i >= Len(c.sel) THEN cs
    ELSE reFind_from(UNION { IF c.crashed \/ i >= Len(c.sel) THEN {c} ELSE reFind_one(c, i) :
                             c \in cs }, i + 1)

reFind_Peaks(c, offt) ==
    { IF d.crashed THEN d ELSE preview(d, offt) : d \in reFind_from({c}, 0) }

\* zoom_adjust_peaks: dfield is controls->dfield
zoom_adjust_peaks(c, dfield, offt, g) ==
    LET multiplier == DDiv(DInt(1), DInt(c.args.zoom_mode))
        xoff == DMul(dfield.xoff, multiplier)
        yoff == DMul(dfield.yoff, multiplier)
        moved == [c EXCEPT !.sel = [i \in 1..Len(c.sel) |->
                    <<DSub(ReadPeak(c, i - 1, g)[1], xoff),
                      DSub(ReadPeak(c, i - 1, g)[2], yoff)>>]]
    IN  reFind_Peaks(moved, offt)

\* zoom_mode_changed
zoom_mode_changed(c, zoom, dfield, offt, g) ==
    zoom_adjust_peaks(preview([c EXCEPT !.args.zoom_mode = zoom], offt), dfield, offt, g)

\* clear_points
clear_points(c, g) == calibrate_update_scales([c EXCEPT !.sel = <<>>], g)

\* threshold_lower_changed / threshold_upper_changed: the value stored
threshold_clamped(num, old, ranges) ==
    IF DGe(num, ranges.min) /\ DLe(num, ranges.max) THEN num
    ELSE IF DLt(num, ranges.min) THEN ranges.min
    ELSE IF DGt(num, ranges.max) THEN ranges.max
    ELSE old

threshold_lower_changed(c, num, ranges, offt) ==
    preview([c EXCEPT !.args.lower = threshold_clamped(num, c.args.lower, ranges)], offt)

threshold_upper_changed(c, num, ranges, offt) ==
    preview([c EXCEPT !.args.upper = threshold_clamped(num, c.args.upper, ranges)], offt)

\* threshold_set_to_full_range -> threshold_set_to_range: both entries are
\* activated with the formatted range, then preview
threshold_set_to_full_range(c, lo, hi, ranges, offt) ==
    preview(threshold_upper_changed(threshold_lower_changed(c, lo, ranges, offt),
                                    hi, ranges, offt), offt)

\* threshold_lattice_changed without the test num > 0
threshold_lattice_changed_unchecked(c, num, g) ==
    calibrate_update_scales([c EXCEPT !.args.lattice = num], g)

\* threshold_lattice_changed
threshold_lattice_changed(c, num, g) ==
    IF DGt(num, DZero)
    THEN calibrate_update_scales([c EXCEPT !.args.lattice = num], g)
    ELSE c

\* xscale_changed without the test num > 0
xscale_changed_unchecked(c, num) ==
    IF ~DEq(num, c.args.Xscale) THEN [c EXCEPT !.args.Xscale = num] ELSE c

\* xscale_changed / yscale_changed
xscale_changed(c, num) ==
    IF ~DEq(num, c.args.Xscale) /\ DGt(num, DZero)
    THEN [c EXCEPT !.args.Xscale = num] ELSE c

yscale_changed(c, num) ==
    IF ~DEq(num, c.args.Yscale) /\ DGt(num, DZero)
    THEN [c EXCEPT !.args.Yscale = num] ELSE c

(***************************************************************************)
(* Calibration applier and settings                                        *)
(***************************************************************************)
\* gwy_data_field_new_resampled letting a resolution of 0 rows through
gwy_data_field_new_resampled_zero_rows(f, xres, yres) ==
    IF f.xres = xres /\ f.yres = yres THEN f
    ELSE IF xres > 0 /\ yres >= 0 THEN gwy_data_field_resample(f, xres, yres)
    ELSE NoField

\* gwy_data_field_new_resampled(f, xres, yres, GWY_INTERPOLATION_LINEAR):
\* g_return_val_if_fail(xres > 0 && yres > 0, NULL)
gwy_data_field_new_resampled(f, xres, yres) ==
    IF f.xres = xres /\ f.yres = yres THEN f
    ELSE IF xres > 0 /\ yres > 0 THEN gwy_data_field_resample(f, xres, yres)
    ELSE NoField

\* calibrate_do with the ratio of the factors upside down
calibrate_do_ratio_inverted(ofield, a) ==
    { IF newYres = G_MAXINT THEN [crashed |-> TRUE, field |-> NoField]
      ELSE LET new == gwy_data_field_new_resampled(ofield, ofield.xres, newYres)
           IN  [crashed |-> FALSE,
                field |-> IF new = NoField THEN NoField
                          ELSE [new EXCEPT !.xreal = DMul(ofield.xreal, a.Xscale),
                                           !.yreal = DMul(ofield.yreal, a.Yscale)]] :
        newYres \in GWY_ROUND(DDiv(DMul(DInt(ofield.yres), a.Xscale), a.Yscale)) }

\* calibrate_do up to the call of calibrate_create_output: the set of the
\* fields it may hand over (NoField for NULL).  A newYres of G_MAXINT is
\* reported as crashed: the allocation of the samples fails and g_malloc
\* aborts.
calibrate_do(ofield, a) ==
    { IF newYres = G_MAXINT THEN [crashed |-> TRUE, field |-> NoField]
      ELSE LET newXres == ofield.xres
               new == gwy_data_field_new_resampled(ofield, newXres, newYres)
           IN  [crashed |-> FALSE,
                field |-> IF new = NoField THEN NoField
                          ELSE [new EXCEPT !.xreal = DMul(ofield.xreal, a.Xscale),
                                           !.yreal = DMul(ofield.yreal, a.Yscale)]] :
        newYres \in GWY_ROUND(DDiv(DMul(DInt(ofield.yres), a.Yscale), a.Xscale)) }

\* The test after GTK_RESPONSE_OK, were a warning to block it
ok_runs_calibrate_do_unless_warned(c) ==
    /\ ~check_warnings(c.args)
    /\ \/ gwy_selection_is_full(c.sel)
       \/ (DGt(c.args.Xscale, DZero) /\ DGt(c.args.Yscale, DZero))

\* The test of calibrate_hcp_dialog after GTK_RESPONSE_OK
ok_runs_calibrate_do(c) ==
    \/ gwy_selection_is_full(c.sel)
    \/ (DGt(c.args.Xscale, DZero) /\ DGt(c.args.Yscale, DZero))

\* calibrate_create_output: gwy_app_data_browser_add_data_field and the
\* title; a NULL field is refused by the browser.
calibrate_create_output(chans, field) ==
    IF field = NoField THEN chans
    ELSE Append(chans, [field |-> field, title |-> "Calibrated"])

NoSettings ==
    [saved |-> FALSE, lower |-> DZero, upper |-> DZero, lattice |-> DZero, radius |-> 0]

\* threshold_save_args without the radius key
threshold_save_args_without_radius(a, r) ==
    [saved |-> TRUE, lower |-> a.lower, upper |-> a.upper, lattice |-> a.lattice, radius |-> 3]

\* threshold_save_args
threshold_save_args(a, r) ==
    [saved |-> TRUE, lower |-> a.lower, upper |-> a.upper, lattice |-> a.lattice, radius |-> r]

\* threshold_load_args: the defaults, and each key that is set
threshold_load_args(st) ==
    IF st.saved
    THEN [threshold_defaults EXCEPT !.lower = st.lower, !.upper = st.upper, !.lattice = st.lattice]
    ELSE threshold_defaults

\* tool.rpx = 3, then gwy_container_gis_int32_by_name(radius_key)
DefaultRadius == 3

load_rpx(st) == IF st.saved THEN st.radius ELSE DefaultRadius

(***************************************************************************)
(* The program as a state machine                                          *)
(***************************************************************************)
VARIABLES
    pc,         \* "idle": no dialog; "dialog": gtk_dialog_run; "crashed": the
                \* process aborted or ran into signed overflow
    settings,   \* the keys of /module/calibrate_hcp in the settings
    heap,       \* the data fields: host (the current channel's field),
                \* dfield, ofield, offt of the dialog
    ctl,        \* the ThresholdControls of the dialog
    ranges,     \* ThresholdRanges
    channels,   \* the channels of the container, in the order of their ids
    hist,       \* history of the session: scale entries activated with a
                \* positive number
    last,       \* the last event
    nsaves,     \* threshold_save_args calls of the session
    nev         \* dialog events so far

vars == <<pc, settings, heap, ctl, ranges, channels, hist, last, nsaves, nev>>

MaxEvents == 3

MaxChannels == 2

Field(xres, yres, xreal, yreal, data) ==
    [xres |-> xres, yres |-> yres, xreal |-> xreal, yreal |-> yreal,
     xoff |-> DZero, yoff |-> DZero, unit |-> 1, data |-> data]

IntSamples(q) == [i \in 1..Len(q) |-> DInt(q[i])]

\* The images the current channel may hold; NoField: there is none.
HostImages ==
    { Field(2, 2, DInt(2), DInt(2), IntSamples(<<1, 2, 3, 5>>)), NoField }

\* What gwy_data_field_2dfft may have written to raout and ipout
FFTOutputs(f) ==
    IF f.xres * f.yres = 4
    THEN { <<IntSamples(<<3, 0, 4, 0>>), IntSamples(<<4, 0, 3, 1>>)>> }
    ELSE {}

NoCtl ==
    [args |-> threshold_defaults, rpx |-> 0, sel |-> <<>>,
     p |-> <<UninitPeak, UninitPeak>>, disp |-> NoField, view |-> NoField,
     crashed |-> FALSE, oob |-> FALSE, changed |-> FALSE]

NoRanges == [min |-> DZero, max |-> DZero]

NoHist == [typedX |-> FALSE, typedY |-> FALSE]

NoLast ==
    [op |-> "none", num |-> DZero,
     X |-> DZero, Y |-> DZero, Xw |-> FALSE, Yw |-> FALSE,
     did |-> FALSE, out |-> FALSE, full |-> FALSE, warn |-> FALSE, pt |-> <<>>]

Ev(op) == [NoLast EXCEPT !.op = op]

EvNum(op, num) == [NoLast EXCEPT !.op = op, !.num = num]

\* calibrate_hcp passing the current data field itself
calibrate_hcp_dfield_not_duplicated == "host"

\* The heap cell the dfield parameter of calibrate_hcp_dialog refers to:
\* calibrate_hcp passes gwy_data_field_duplicate(dfield).
calibrate_hcp_dfield == "dfield"

\* gwy_data_field_duplicate(dfield) of calibrate_hcp
dialog_dfield(h, ref) == IF ref = "dfield" THEN [h EXCEPT !.dfield = h.host] ELSE h

\* controls.ofield = gwy_data_field_duplicate(dfield); perform_fft(controls.dfield)
dialog_fft(h, ref, re, im) ==
    [h EXCEPT !.ofield = h[ref], ![ref] = perform_fft(h[ref], re, im)]

\* controls.offt = gwy_data_field_duplicate(controls.dfield)
dialog_offt(h, ref) == [h EXCEPT !.offt = h[ref]]

\* calibrate_hcp_dialog up to the construction of the widgets: the heap
calibrate_hcp_dialog_heap(h, ref, re, im) ==
    dialog_offt(dialog_fft(dialog_dfield(h, ref), ref, re, im), ref)

\* calibrate_hcp_dialog up to gtk_dialog_run: the controls
calibrate_hcp_dialog_ctl(h, ref, st) ==
    preview([args |-> threshold_load_args(st), rpx |-> load_rpx(st), sel |-> <<>>,
             p |-> <<UninitPeak, UninitPeak>>, disp |-> h[ref], view |-> h[ref],
             crashed |-> FALSE, oob |-> FALSE, changed |-> FALSE], h.offt)

Init ==
    /\ pc = "idle"
    /\ settings = NoSettings
    /\ \E f \in HostImages :
          /\ heap = [host |-> f, dfield |-> NoField, ofield |-> NoField, offt |-> NoField]
          /\ channels = IF f = NoField THEN <<>> ELSE <<[field |-> f, title |-> "Untitled"]>>
    /\ ctl = NoCtl
    /\ ranges = NoRanges
    /\ hist = NoHist
    /\ last = NoLast
    /\ nsaves = 0
    /\ nev = 0

\* calibrate_hcp without a current data field, were the test of dfield
\* missing: the dialog is entered
CalibrateHcpNoData_unchecked ==
    /\ pc = "idle"
    /\ heap.host = NoField
    /\ pc' = "dialog"
    /\ last' = Ev("open")
    /\ UNCHANGED <<settings, heap, ctl, ranges, channels, hist, nsaves, nev>>

\* calibrate_hcp without a current data field: g_return_if_fail(dfield)
CalibrateHcpNoData ==
    /\ pc = "idle"
    /\ heap.host = NoField
    /\ last' = Ev("no_data")
    /\ UNCHANGED <<pc, settings, heap, ctl, ranges, channels, hist, nsaves, nev>>

\* calibrate_hcp up to gtk_dialog_run.  The current channel is the one of
\* Init in every session: the user does not select another.
CalibrateHcp ==
    /\ pc = "idle"
    /\ heap.host # NoField
    /\ Len(channels) < MaxChannels
    /\ \E s \in FFTOutputs(heap.host) :
          heap' = calibrate_hcp_dialog_heap(heap, calibrate_hcp_dfield, s[1], s[2])
    /\ ctl' = calibrate_hcp_dialog_ctl(heap', calibrate_hcp_dfield, settings)
    /\ ranges' = [min |-> gwy_data_field_get_min(heap'[calibrate_hcp_dfield]),
                  max |-> gwy_data_field_get_max(heap'[calibrate_hcp_dfield])]
    /\ pc' = "dialog"
    /\ hist' = NoHist
    /\ last' = Ev("open")
    /\ nsaves' = 0
    /\ UNCHANGED <<settings, channels, nev>>

\* The digits threshold_format_value prints: original_XY_Format->precision+1
FormatDigits == 1

RECURSIVE Pow10(_)
Pow10(k) == IF k = 0 THEN 1 ELSE 10 * Pow10(k - 1)

\* n/d rounded to an integer, a tie going to the even neighbour (printf)
RoundHalfEven(n, d) ==
    LET fl == n \div d
        twice == 2 * (n - fl * d)
    IN  IF twice < d THEN fl
        ELSE IF twice > d THEN fl + 1
        ELSE IF fl % 2 = 0 THEN fl ELSE fl + 1

\* threshold_format_value followed by g_strtod of the entry: the number the
\* text "%.*f" of the value stands for
threshold_format_value(v) ==
    CASE v.k = "fin" /\ v.rt = 1 ->
            MkRat(RoundHalfEven(v.n * Pow10(FormatDigits), v.d), Pow10(FormatDigits))
      [] v.k = "fin" /\ v.n > 0 ->
            MkRat(RoundRootFrom(v.n * Pow10(FormatDigits) * Pow10(FormatDigits), v.d, 0),
                  Pow10(FormatDigits))
      [] v.k = "fin" ->
            MkRat(-RoundRootFrom((-v.n) * Pow10(FormatDigits) * Pow10(FormatDigits), v.d, 0),
                  Pow10(FormatDigits))
      [] OTHER -> v

\* The numbers the entries are activated with
ThresholdEntries == {DInt(-1), DInt(1), NaN}

LatticeEntries == {DInt(2), DZero}

ScaleEntries == {DInt(2), MkRat(1, 2), DInt(-1), DZero, NaN}

MaxRadius == 0

\* What the reads of p may yield where p is uninitialised
GarbageReads(c) ==
    { <<g0, g1>> : g0 \in (IF c.p[1] = UninitPeak THEN GarbagePeaks ELSE {c.p[1]}),
                   g1 \in (IF c.p[2] = UninitPeak THEN GarbagePeaks ELSE {c.p[2]}) }

\* Where the pointer may be pressed: the centres of the pixels
PickPoints(view) ==
    { <<gwy_data_field_jtor(view, MkRat(2 * col + 1, 2)),
        gwy_data_field_itor(view, MkRat(2 * row + 1, 2))>> :
        col \in 0..(view.xres - 1), row \in 0..(view.yres - 1) }

\* One callback of the dialog ran: cs are its outcomes
Callback(cs, l, hs) ==
    /\ pc = "dialog"
    /\ nev < MaxEvents
    /\ \E d \in cs :
          /\ ctl' = d
          /\ pc' = IF d.crashed THEN "crashed" ELSE "dialog"
    /\ last' = l
    /\ hist' = hs
    /\ nev' = nev + 1
    /\ UNCHANGED <<settings, heap, ranges, channels, nsaves>>

\* GwyLayerPoint: a press adds an object while the selection is not full
PickPoint ==
    /\ Len(ctl.sel) < MaxObjects
    /\ \E pt \in PickPoints(ctl.view) :
          Callback({[ctl EXCEPT !.sel = Append(ctl.sel, pt)]}, Ev("pick"), hist)

\* GwyLayerPoint: an object is dragged
MovePoint ==
    \E i \in 1..Len(ctl.sel) : \E pt \in PickPoints(ctl.view) :
        /\ pt # ctl.sel[i]
        /\ Callback({[ctl EXCEPT !.sel[i] = pt]}, Ev("move"), hist)

ClearPoints ==
    \E g \in GarbageReads(ctl) : Callback({clear_points(ctl, g)}, Ev("clear"), hist)

ZoomModeChanged ==
    \E zoom \in {ZOOM_1, ZOOM_2} : \E g \in GarbageReads(ctl) :
        Callback(zoom_mode_changed(ctl, zoom, heap[calibrate_hcp_dfield], heap.offt, g),
                 Ev("zoom"), hist)

\* gwy_tool_level3_radius_changed
RadiusChanged ==
    \E r \in 0..MaxRadius :
        /\ r # ctl.rpx
        /\ Callback({[ctl EXCEPT !.rpx = r]}, Ev("radius"), hist)

LatticeChanged ==
    \E num \in LatticeEntries : \E g \in GarbageReads(ctl) :
        Callback({threshold_lattice_changed(ctl, num, g)}, Ev("lattice"), hist)

LowerChanged ==
    \E num \in ThresholdEntries :
        Callback({threshold_lower_changed(ctl, num, ranges, heap.offt)},
                 EvNum("lower", num), hist)

UpperChanged ==
    \E num \in ThresholdEntries :
        Callback({threshold_upper_changed(ctl, num, ranges, heap.offt)},
                 EvNum("upper", num), hist)

SetFullRange ==
    Callback({threshold_set_to_full_range(ctl, threshold_format_value(ranges.min),
                                          threshold_format_value(ranges.max),
                                          ranges, heap.offt)},
             Ev("full_range"), hist)

XscaleChanged ==
    \E num \in ScaleEntries :
        Callback({xscale_changed(ctl, num)}, EvNum("xscale", num),
                 [hist EXCEPT !.typedX = @ \/ DGt(num, DZero)])

YscaleChanged ==
    \E num \in ScaleEntries :
        Callback({yscale_changed(ctl, num)}, EvNum("yscale", num),
                 [hist EXCEPT !.typedY = @ \/ DGt(num, DZero)])

\* The tree view draws the cell of column id in row idx
RenderCell ==
    \E id \in {COLUMN_I, COLUMN_X, COLUMN_Y, COLUMN_Z} : \E idx \in 0..(MaxObjects - 1) :
        \E g \in GarbageReads(ctl) :
            Callback(gwy_tool_level3_render_cell(ctl, id, idx, g),
                     Ev("render_cell"), hist)

\* The dialog is gone: its fields and controls are released
EndDialog ==
    /\ heap' = [heap EXCEPT !.dfield = NoField, !.ofield = NoField, !.offt = NoField]
    /\ ctl' = NoCtl
    /\ ranges' = NoRanges
    /\ nsaves' = nsaves + 1
    /\ UNCHANGED <<hist, nev>>

\* GTK_RESPONSE_CANCEL, GTK_RESPONSE_DELETE_EVENT, GTK_RESPONSE_NONE
ResponseClose ==
    /\ pc = "dialog"
    /\ \E r \in {"cancel", "delete_event", "none"} : last' = Ev(r)
    /\ settings' = threshold_save_args(ctl.args, ctl.rpx)
    /\ pc' = "idle"
    /\ EndDialog
    /\ UNCHANGED channels

\* GTK_RESPONSE_OK
ResponseOK ==
    /\ pc = "dialog"
    /\ settings' = threshold_save_args(ctl.args, ctl.rpx)
    /\ IF ok_runs_calibrate_do(ctl)
       THEN \E o \in calibrate_do(heap.ofield, ctl.args) :
               /\ pc' = IF o.crashed THEN "crashed" ELSE "idle"
               /\ channels' = calibrate_create_output(channels, o.field)
       ELSE pc' = "idle" /\ UNCHANGED channels
    /\ last' = [Ev("ok") EXCEPT !.X = ctl.args.Xscale, !.Y = ctl.args.Yscale,
                                !.did = ok_runs_calibrate_do(ctl),
                                !.out = Len(channels') > Len(channels),
                                !.full = gwy_selection_is_full(ctl.sel),
                                !.warn = check_warnings(ctl.args)]
    /\ EndDialog

Next ==
    \/ CalibrateHcpNoData
    \/ CalibrateHcp
    \/ PickPoint
    \/ MovePoint
    \/ ClearPoints
    \/ ZoomModeChanged
    \/ RadiusChanged
    \/ LatticeChanged
    \/ LowerChanged
    \/ UpperChanged
    \/ SetFullRange
    \/ XscaleChanged
    \/ YscaleChanged
    \/ RenderCell
    \/ ResponseClose
    \/ ResponseOK

Spec == Init /\ [][Next]_vars

(***************************************************************************)
(* The lattice solver alone: calibration_get_factors on the peaks of the   *)
(* controls, for every pair of peaks of a grid, then with the two peaks    *)
(* exchanged.                                                              *)
(***************************************************************************)
MaxCoord == 3

SolverCoords == { DInt(i) : i \in (-1)..MaxCoord }

SolverLattices == {DInt(1), DInt(2), MkRat(1, 2)}

InitSolver ==
    /\ pc = "solver"
    /\ settings = NoSettings
    /\ heap = [host |-> NoField, dfield |-> NoField, ofield |-> NoField, offt |-> NoField]
    /\ channels = <<>>
    /\ \E x1 \in SolverCoords, y1 \in SolverCoords, x2 \in SolverCoords, y2 \in SolverCoords :
       \E a \in SolverLattices, xw \in BOOLEAN, yw \in BOOLEAN :
          ctl = [NoCtl EXCEPT !.p = <<<<x1, y1, DZero>>, <<x2, y2, DZero>>>>,
                              !.args.lattice = a,
                              !.args.Xwarning = xw, !.args.Ywarning = yw]
    /\ ranges = NoRanges
    /\ hist = NoHist
    /\ last = NoLast
    /\ nsaves = 0
    /\ nev = 0

SolverArgs(c) ==
    calibration_get_factors(c.args, c.p[1][1], c.p[1][2], c.p[2][1], c.p[2][2])

\* calibration_get_factors(controls)
SolverRun ==
    /\ pc = "solver"
    /\ last.op = "none"
    /\ ctl' = [ctl EXCEPT !.args = SolverArgs(ctl)]
    /\ last' = Ev("solve")
    /\ UNCHANGED <<pc, settings, heap, ranges, channels, hist, nsaves, nev>>

\* The two peaks change places, and calibration_get_factors(controls); last
\* keeps the result of the first run.
SolverSwapRun ==
    /\ pc = "solver"
    /\ last.op = "solve"
    /\ LET swapped == [ctl EXCEPT !.p = <<ctl.p[2], ctl.p[1]>>]
       IN  ctl' = [swapped EXCEPT !.args = SolverArgs(swapped)]
    /\ last' = [Ev("swap_solve") EXCEPT !.X = ctl.args.Xscale, !.Y = ctl.args.Yscale,
                                        !.Xw = ctl.args.Xwarning,
                                        !.Yw = ctl.args.Ywarning]
    /\ UNCHANGED <<pc, settings, heap, ranges, channels, hist, nsaves, nev>>

NextSolver == SolverRun \/ SolverSwapRun

SpecSolver == InitSolver /\ [][NextSolver]_vars

Solved == pc = "solver" /\ last.op \in {"solve", "swap_solve"}

SolverX1 == ctl.p[1][1]

SolverY1 == ctl.p[1][2]

SolverX2 == ctl.p[2][1]

SolverY2 == ctl.p[2][2]

Sq(x) == DMul(x, x)

\* Every number of the solver is one the model represents exactly.
SolverExact ==
    Solved => ctl.args.Xscale.k # "unrep" /\ ctl.args.Yscale.k # "unrep"

\* C4: after calibration_get_factors, Xwarning is TRUE exactly when
\* x1^2 = x2^2, or x1^2 = 0, or Xscale is NaN, or x1^2*y2^2 = x2^2*y1^2;
\* Ywarning is TRUE exactly when y1^2 = y2^2, or Yscale is NaN, or
\* x1^2*y2^2 = x2^2*y1^2; the flags the arguments held before do not matter.
C4_DegeneracyFlags ==
    Solved =>
        /\ ctl.args.Xwarning <=>
              \/ Sq(SolverX1) = Sq(SolverX2)
              \/ Sq(SolverX1) = DZero
              \/ DIsNaN(ctl.args.Xscale)
              \/ DMul(Sq(SolverX1), Sq(SolverY2)) = DMul(Sq(SolverX2), Sq(SolverY1))
        /\ ctl.args.Ywarning <=>
              \/ Sq(SolverY1) = Sq(SolverY2)
              \/ DIsNaN(ctl.args.Yscale)
              \/ DMul(Sq(SolverX1), Sq(SolverY2)) = DMul(Sq(SolverX2), Sq(SolverY1))

\* C4 witness: x1 = x2 = 2 with different y: Xwarning is set, Ywarning is not
C4_Witness ==
    /\ Solved
    /\ SolverX1 = DInt(2) /\ SolverX2 = DInt(2)
    /\ SolverY1 = DInt(1) /\ SolverY2 = DInt(3)
    /\ ctl.args.Xwarning /\ ~ctl.args.Ywarning

AxisAligned ==
    /\ SolverX1 # DZero /\ SolverY1 = DZero
    /\ SolverX2 = DZero /\ SolverY2 # DZero

Triangle ==
    /\ SolverX1 = DInt(3) /\ SolverY1 = DInt(1)
    /\ SolverX2 = DInt(1) /\ SolverY2 = DInt(3)

\* xcorr^2*x^2 + ycorr^2*y^2 = R^2 with xcorr = 1/Xscale, ycorr = 1/Yscale
OnLatticeRing(a, x, y) ==
    DAdd(DMul(Sq(DDiv(DInt(1), a.Xscale)), Sq(x)),
         DMul(Sq(DDiv(DInt(1), a.Yscale)), Sq(y))) = Sq(solver_R(a.lattice))

Positive(x) == DIsFinite(x) /\ DGt(x, DZero)

\* C5: for the peaks (x, 0) and (0, y) with x and y nonzero, and for the
\* triangle (3, 1), (1, 3), with every positive lattice constant the solver
\* divides by no zero, sets neither warning, and stores finite positive
\* Xscale and Yscale for which both peaks satisfy
\* xcorr^2*xi^2 + ycorr^2*yi^2 = R^2.
C5_CleanResults ==
    (Solved /\ last.op = "solve" /\ (AxisAligned \/ Triangle)) =>
        /\ ~ctl.args.Xwarning /\ ~ctl.args.Ywarning
        /\ Positive(ctl.args.Xscale) /\ Positive(ctl.args.Yscale)
        /\ ~DIsZero(DMul(DSqrt(DInt(3)), ctl.args.lattice))
        /\ ~DIsZero(solver_det(SolverX1, SolverY1, SolverX2, SolverY2))
        /\ ~DIsZero(Sq(SolverX1))
        /\ ~DIsZero(solver_ycorr(ctl.args.lattice, SolverX1, SolverY1, SolverX2, SolverY2))
        /\ ~DIsZero(solver_xcorr(ctl.args.lattice, SolverX1, SolverY1, SolverX2, SolverY2))
        /\ OnLatticeRing(ctl.args, SolverX1, SolverY1)
        /\ OnLatticeRing(ctl.args, SolverX2, SolverY2)

\* C5 witness: the triangle solved with the lattice constant 2: the two scale
\* factors are equal, positive and not 1
C5_Witness ==
    /\ Solved /\ last.op = "solve" /\ Triangle
    /\ ctl.args.lattice = DInt(2)
    /\ ctl.args.Xscale = ctl.args.Yscale
    /\ Positive(ctl.args.Xscale)
    /\ ctl.args.Xscale # DInt(1)

\* C6: exchanging the peak stored at index 0 with the one at index 1 leaves
\* Xscale, Yscale, Xwarning and Ywarning as the solver computed them before
\* the exchange.
C6_SwapInvariant ==
    (pc = "solver" /\ last.op = "swap_solve") =>
        /\ ctl.args.Xscale = last.X
        /\ ctl.args.Yscale = last.Y
        /\ ctl.args.Xwarning = last.Xw
        /\ ctl.args.Ywarning = last.Yw

(***************************************************************************)
(* The dialog                                                              *)
(***************************************************************************)
EndOps == {"ok", "cancel", "delete_event", "none"}

\* C1: when the dialog is closed with OK, an output image is produced only
\* if the selection holds two points at that moment or the user has
\* activated both scale entries with a positive factor during the session.
C1_AcceptGating ==
    (last.op = "ok" /\ last.out) => (last.full \/ (hist.typedX /\ hist.typedY))

\* C2: in every step the host's current image keeps its samples,
\* resolution, extents and offsets, the channels that exist are kept as they
\* are, at most one channel is appended, and only OK appends one.
C2_CreateAndAppend ==
    [][/\ heap'.host = heap.host
       /\ Len(channels') >= Len(channels)
       /\ SubSeq(channels', 1, Len(channels)) = channels
       /\ Len(channels') <= Len(channels) + 1
       /\ Len(channels') > Len(channels) => last'.op = "ok"]_vars

\* C2 witness: OK has appended an image of another resolution; the host
\* image is still the first channel, as it was.
C2_Witness ==
    /\ last.op = "ok" /\ last.out
    /\ Len(channels) = 2
    /\ channels[1].field = heap.host
    /\ heap.host \in HostImages
    /\ channels[2].field.yres # heap.host.yres

\* C3: whichever way the dialog ends, threshold_save_args has run exactly
\* once in the session and the settings hold the lower, upper, lattice and
\* radius of that moment; a session that starts with saved settings starts
\* with exactly those four values.
C3_SettingsPersisted ==
    [][/\ (pc = "dialog" /\ last'.op \in EndOps) =>
              /\ nsaves' = 1
              /\ settings' = [saved |-> TRUE, lower |-> ctl.args.lower,
                              upper |-> ctl.args.upper, lattice |-> ctl.args.lattice,
                              radius |-> ctl.rpx]
       /\ (pc = "idle" /\ pc' = "dialog" /\ settings.saved) =>
              /\ ctl'.args.lower = settings.lower
              /\ ctl'.args.upper = settings.upper
              /\ ctl'.args.lattice = settings.lattice
              /\ ctl'.rpx = settings.radius]_vars

\* C3 witness: a second session has started with the lattice constant and
\* the radius the first one left, neither being the default.
C3_Witness ==
    /\ pc = "dialog" /\ last.op = "open" /\ settings.saved
    /\ ctl.args.lattice = settings.lattice /\ ctl.args.lattice = DInt(2)
    /\ ctl.rpx = settings.radius /\ ctl.rpx # DefaultRadius

\* C7: once the X scale entry was activated with a positive v, Xscale is v;
\* if OK comes next, v is the Xscale calibrate_do is given; and if the next
\* event is a cell render, a zoom, radius or threshold change, Xscale is
\* still v after it.  The same for the Y entry.
C7_ManualOverrideWins ==
    [][/\ (last.op = "xscale" /\ DGt(last.num, DZero)) =>
              /\ ctl.args.Xscale = last.num
              /\ last'.op = "ok" => last'.X = last.num
              /\ last'.op \in {"render_cell", "zoom", "radius", "lower", "upper", "full_range"}
                    => ctl'.args.Xscale = last.num
       /\ (last.op = "yscale" /\ DGt(last.num, DZero)) =>
              /\ ctl.args.Yscale = last.num
              /\ last'.op = "ok" => last'.Y = last.num
              /\ last'.op \in {"render_cell", "zoom", "radius", "lower", "upper", "full_range"}
                    => ctl'.args.Yscale = last.num]_vars

\* C8: activating the X or Y scale entry with a number that is not positive
\* leaves every field of the arguments as it was.
C8_NonPositiveIgnored ==
    [][(last'.op \in {"xscale", "yscale"} /\ ~DGt(last'.num, DZero)) =>
          ctl'.args = ctl.args]_vars

\* C8 witness: the X entry was activated with a number that is not positive
\* while Xscale was the 2 typed before; Xscale is still 2.
C8_Witness ==
    /\ pc = "dialog" /\ last.op = "xscale" /\ ~DGt(last.num, DZero)
    /\ hist.typedX
    /\ ctl.args.Xscale = DInt(2)

\* C9: when OK is pressed while two points are selected, calibrate_do runs
\* with the stored Xscale and Yscale, and the channels become what they
\* would become were both warning flags FALSE.
C9_WarningsAdvisory ==
    [][(pc = "dialog" /\ last'.op = "ok" /\ gwy_selection_is_full(ctl.sel)) =>
          /\ last'.did
          /\ last'.X = ctl.args.Xscale /\ last'.Y = ctl.args.Yscale
          /\ \E o \in calibrate_do(heap.ofield,
                                   [ctl.args EXCEPT !.Xwarning = FALSE, !.Ywarning = FALSE]) :
                channels' = calibrate_create_output(channels, o.field)]_vars

\* C9 witness: OK was pressed with two points selected and a warning set,
\* and calibrate_do ran.
C9_Witness ==
    last.op = "ok" /\ last.full /\ last.warn /\ last.did

\* n = floor(x + 1/2)
RoundsTo(n, x) ==
    /\ DLe(DInt(2 * n - 1), DMul(DInt(2), x))
    /\ DLt(DMul(DInt(2), x), DInt(2 * n + 1))

Output == channels[Len(channels)].field

\* C10: the image OK appends has xres = oldXres,
\* yres = round(oldYres*Yscale/Xscale), xreal = oldXreal*Xscale and
\* yreal = oldYreal*Yscale, the old values being those of the original image;
\* with Xscale = Yscale = 1 its resolution and extents are the original's.
C10_ApplierResult ==
    (last.op = "ok" /\ last.out) =>
        /\ Output.xres = heap.host.xres
        /\ RoundsTo(Output.yres, DDiv(DMul(DInt(heap.host.yres), last.Y), last.X))
        /\ Output.xreal = DMul(heap.host.xreal, last.X)
        /\ Output.yreal = DMul(heap.host.yreal, last.Y)
        /\ (last.X = DInt(1) /\ last.Y = DInt(1)) =>
              /\ Output.xres = heap.host.xres /\ Output.yres = heap.host.yres
              /\ Output.xreal = heap.host.xreal /\ Output.yreal = heap.host.yreal

\* C10 witness: Xscale = 2 and Yscale = 1/2 applied to the 2 x 2 image of
\* extents 2 x 2: the output is 2 x 1 with extents 4 x 1.
C10_Witness ==
    /\ last.op = "ok" /\ last.out
    /\ last.X = DInt(2) /\ last.Y = MkRat(1, 2)
    /\ Output.xres = 2 /\ Output.yres = 1
    /\ Output.xreal = DInt(4) /\ Output.yreal = DInt(1)

(***************************************************************************)
(* The applier alone: the dialog at the moment OK is pressed, for every    *)
(* pair of values Xscale and Yscale may hold then (solved ones may be NaN, *)
(* infinite or zero; typed ones are greater than zero) and a selection     *)
(* that is empty or full.                                                  *)
(***************************************************************************)
ApplierScales ==
    {NaN, PInf, DZero, DInt(1), DInt(2), MkRat(1, 2), MkRat(1, 8), MkRoot(3, 1)}

ApplierSelections == { <<>>, <<<<DZero, DZero>>, <<MkRat(1, 2), DZero>>>> }

InitApplier ==
    /\ pc = "dialog"
    /\ settings = NoSettings
    /\ \E f \in HostImages \ {NoField} : \E s \in FFTOutputs(f) :
          /\ heap = calibrate_hcp_dialog_heap(
                        [host |-> f, dfield |-> NoField, ofield |-> NoField, offt |-> NoField],
                        calibrate_hcp_dfield, s[1], s[2])
          /\ channels = <<[field |-> f, title |-> "Untitled"]>>
          /\ ranges = [min |-> gwy_data_field_get_min(heap[calibrate_hcp_dfield]),
                       max |-> gwy_data_field_get_max(heap[calibrate_hcp_dfield])]
    /\ \E X \in ApplierScales, Y \in ApplierScales, sel \in ApplierSelections :
          ctl = [calibrate_hcp_dialog_ctl(heap, calibrate_hcp_dfield, settings)
                    EXCEPT !.args.Xscale = X, !.args.Yscale = Y, !.sel = sel]
    /\ hist = NoHist
    /\ last = Ev("open")
    /\ nsaves = 0
    /\ nev = 0

NextApplier == ResponseOK

SpecApplier == InitApplier /\ [][NextApplier]_vars

Created(i) == channels[i].title = "Calibrated"

MaxRes == 4

MaxPeakRadius == 2

MaxPeakEvents == 4

PeakImages ==
    { Field(xres, yres, DInt(2), DInt(2), [i \in 1..(xres * yres) |-> DInt(1)]) :
        xres \in 1..MaxRes, yres \in 1..MaxRes }

SpectrumHalf(i, j) ==
    IF i = 0 /\ j = 0 THEN 3 ELSE (i * i + 2 * j * j + 3 * i * j + 2 * i + j) % 7

\* The transform of a real image has the same modulus at k and at -k
SpectrumSample(f, i, j) ==
    SpectrumHalf(i, j) + SpectrumHalf((f.xres - i) % f.xres, (f.yres - j) % f.yres)

\* What gwy_data_field_2dfft may have written to raout and ipout
PeakFFTOutputs(f) ==
    { << [k \in 1..(f.xres * f.yres) |->
            DInt(-SpectrumSample(f, (k - 1) % f.xres, (k - 1) \div f.xres))],
         [k \in 1..(f.xres * f.yres) |-> DZero] >> }

InitPeak ==
    /\ pc = "dialog"
    /\ settings = NoSettings
    /\ \E f \in PeakImages : \E s \in PeakFFTOutputs(f) :
          /\ heap = calibrate_hcp_dialog_heap(
                        [host |-> f, dfield |-> NoField, ofield |-> NoField, offt |-> NoField],
                        calibrate_hcp_dfield, s[1], s[2])
          /\ channels = <<[field |-> f, title |-> "Untitled"]>>
          /\ ranges = [min |-> gwy_data_field_get_min(heap[calibrate_hcp_dfield]),
                       max |-> gwy_data_field_get_max(heap[calibrate_hcp_dfield])]
    /\ \E r \in 0..MaxPeakRadius :
          ctl = [calibrate_hcp_dialog_ctl(heap, calibrate_hcp_dfield, settings)
                    EXCEPT !.rpx = r]
    /\ hist = NoHist
    /\ last = Ev("open")
    /\ nsaves = 0
    /\ nev = 0

\* One callback of the dialog ran: cs are its outcomes
PeakCallback(cs, l) ==
    /\ pc = "dialog"
    /\ nev < MaxPeakEvents
    /\ \E d \in cs :
          /\ ctl' = d
          /\ pc' = IF d.crashed THEN "crashed" ELSE "dialog"
    /\ last' = l
    /\ nev' = nev + 1
    /\ UNCHANGED <<settings, heap, ranges, channels, hist, nsaves>>

\* The first point is picked
PeakPick ==
    /\ Len(ctl.sel) = 0
    /\ \E pt \in PickPoints(ctl.view) :
          PeakCallback({[ctl EXCEPT !.sel = Append(ctl.sel, pt)]}, Ev("pick"))

\* The tree view draws the X cell of the first row: peak_find on the point
\* held, which last.pt records
PeakRender ==
    /\ Len(ctl.sel) = 1
    /\ \E g \in GarbageReads(ctl) :
          PeakCallback(gwy_tool_level3_render_cell(ctl, COLUMN_X, 0, g),
                       [Ev("render_cell") EXCEPT !.pt = ctl.sel[1]])

\* The other zoom radio button is chosen
PeakZoom ==
    \E zoom \in {ZOOM_1, ZOOM_2} \ {ctl.args.zoom_mode} : \E g \in GarbageReads(ctl) :
        PeakCallback(zoom_mode_changed(ctl, zoom, heap[calibrate_hcp_dfield], heap.offt, g),
                     Ev("zoom"))

NextPeak ==
    \/ PeakPick
    \/ PeakRender
    \/ PeakZoom

SpecPeak == InitPeak /\ [][NextPeak]_vars

\* The pixel of the field f a point of the selection lies in
PixelOf(f, pt) ==
    <<TruncRat(gwy_data_field_rtoj(f, pt[1])), TruncRat(gwy_data_field_rtoi(f, pt[2]))>>

\* The peak triple of the pixel q of the field f
PeakAt(f, q) ==
    <<DAdd(gwy_data_field_jtor(f, DInt(q[1])), f.xoff),
      DAdd(gwy_data_field_itor(f, DInt(q[2])), f.yoff),
      gwy_data_field_get_val(f, q[1], q[2])>>

\* The controls with the unzoomed spectrum as the field peak_find works on
\* and, as the point, the physical position of last.pt in that frame
Unzoomed ==
    [ctl EXCEPT !.disp = preview_disp([ctl.args EXCEPT !.zoom_mode = ZOOM_1],
                                      heap.offt, ctl.disp),
                !.sel = << <<DSub(DAdd(last.pt[1], ctl.disp.xoff), heap.offt.xoff),
                             DSub(DAdd(last.pt[2], ctl.disp.yoff), heap.offt.yoff)>> >>]

\* C12: the peak triple peak_find has stored for a picked point is the one
\* it finds on the unzoomed spectrum for the same physical position,
\* whichever zoom the display has.
C12_ZoomDisplayOnly ==
    (pc = "dialog" /\ last.op = "render_cell") =>
        \A d \in peak_find(Unzoomed, Unzoomed.sel[1], 0) : ctl.p[1] = d.p[1]

\* The physical position of the peak found for the i-th point held
PeakPosition(c, i) == <<c.p[i][1], c.p[i][2]>>

\* C13: a change of the zoom keeps the number of points held, and the peak
\* of every point that has been refined keeps its physical position.
C13_ZoomRemapsPoints ==
    [][(last'.op = "zoom" /\ pc' = "dialog") =>
          /\ Len(ctl'.sel) = Len(ctl.sel)
          /\ \A i \in 1..Len(ctl.sel) :
                ctl.p[i] # UninitPeak => PeakPosition(ctl', i) = PeakPosition(ctl, i)]_vars

\* The point peak_find is handed when the peak stored for the first point is
\* refined again: its position relative to the offsets of the display
Returned == <<DSub(ctl.p[1][1], ctl.disp.xoff), DSub(ctl.p[1][2], ctl.disp.yoff)>>

DCPixel(f) == <<f.xres \div 2, f.yres \div 2>>

\* C15: when peak_find is handed a point of the pixel (xres/2, yres/2) of
\* the unzoomed spectrum with radius 0, the position it stores is (0, 0),
\* whatever the resolution.
C15_DCAtOrigin ==
    (/\ pc = "dialog" /\ last.op = "render_cell"
     /\ ctl.args.zoom_mode = ZOOM_1 /\ ctl.rpx = 0
     /\ PixelOf(ctl.disp, last.pt) = DCPixel(heap.offt)) =>
        PeakPosition(ctl, 1) = <<DZero, DZero>>

(***************************************************************************)
(* The intensity clamp alone: the dialog opened on the 2 x 2 image with    *)
(* the settings an earlier session has left, on this image or on one with  *)
(* a wider range, and the two entries and the full-range button used.      *)
(***************************************************************************)
SavedSettings ==
    { NoSettings,
      [saved |-> TRUE, lower |-> DZero, upper |-> DInt(12), lattice |-> DInt(1), radius |-> 3],
      [saved |-> TRUE, lower |-> DInt(7), upper |-> DInt(12), lattice |-> DInt(1), radius |-> 3],
      [saved |-> TRUE, lower |-> DInt(1), upper |-> DInt(5), lattice |-> DInt(1), radius |-> 3] }

InitClamp ==
    /\ pc = "dialog"
    /\ settings \in SavedSettings
    /\ \E f \in HostImages \ {NoField} : \E s \in FFTOutputs(f) :
          /\ heap = calibrate_hcp_dialog_heap(
                        [host |-> f, dfield |-> NoField, ofield |-> NoField, offt |-> NoField],
                        calibrate_hcp_dfield, s[1], s[2])
          /\ channels = <<[field |-> f, title |-> "Untitled"]>>
          /\ ranges = [min |-> gwy_data_field_get_min(heap[calibrate_hcp_dfield]),
                       max |-> gwy_data_field_get_max(heap[calibrate_hcp_dfield])]
    /\ ctl = calibrate_hcp_dialog_ctl(heap, calibrate_hcp_dfield, settings)
    /\ hist = NoHist
    /\ last = Ev("open")
    /\ nsaves = 0
    /\ nev = 0

NextClamp ==
    \/ LowerChanged
    \/ UpperChanged
    \/ SetFullRange

SpecClamp == InitClamp /\ [][NextClamp]_vars

\* The bound the entry of the last event stores
Bound == IF last.op = "lower" THEN ctl.args.lower ELSE ctl.args.upper

\* C16: after the lower or the upper entry was activated, the bound it
\* stores lies in [ranges.min, ranges.max]: it is min for a number below
\* min, max for a number above max and the number itself otherwise.
C16_EntriesClamped ==
    (pc = "dialog" /\ last.op \in {"lower", "upper"}) =>
        /\ DGe(Bound, ranges.min) /\ DLe(Bound, ranges.max)
        /\ DLt(last.num, ranges.min) => Bound = ranges.min
        /\ DGt(last.num, ranges.max) => Bound = ranges.max
        /\ (DGe(last.num, ranges.min) /\ DLe(last.num, ranges.max)) => Bound = last.num

\* C17: while the host has no current image, a call of calibrate_hcp
\* returns at once: no dialog is opened, no field is transformed or
\* allocated, the controls stay unset and no channel is added.
C17_MissingInputAborts ==
    [][(pc = "idle" /\ heap.host = NoField) =>
          /\ pc' = "idle"
          /\ last'.op = "no_data"
          /\ heap' = heap /\ heap'.dfield = NoField /\ heap'.offt = NoField
          /\ ctl' = NoCtl
          /\ channels' = channels
          /\ settings' = settings]_vars

\* C17 witness: calibrate_hcp was called without a current image and has
\* returned; there is no dialog, no spectrum and no channel.
C17_Witness ==
    /\ last.op = "no_data" /\ heap.host = NoField
    /\ pc = "idle" /\ heap.dfield = NoField /\ heap.offt = NoField
    /\ ctl = NoCtl /\ channels = <<>>

\* The window of peak_find around the pixel q of the field f
Window(f, q, r) ==
    { <<i, j>> : i \in (IF q[1] - r < 0 THEN 0 ELSE q[1] - r)
                        ..((IF q[1] + r > f.xres THEN f.xres ELSE q[1] + r) - 1),
                 j \in (IF q[2] - r < 0 THEN 0 ELSE q[2] - r)
                        ..((IF q[2] + r > f.yres THEN f.yres ELSE q[2] + r) - 1) }

\* The pixels of S that hold the greatest sample of S
Maxima(f, S) ==
    { q \in S : \A o \in S :
        DGe(gwy_data_field_get_val(f, q[1], q[2]), gwy_data_field_get_val(f, o[1], o[2])) }

\* The pixel of S met first when the rows are scanned one after the other
RowMajorFirst(S) ==
    CHOOSE q \in S : \A o \in S : q[2] < o[2] \/ (q[2] = o[2] /\ q[1] <= o[1])

\* The pixel of S met first when the columns are scanned one after the other
ColumnMajorFirst(S) ==
    CHOOSE q \in S : \A o \in S : q[1] < o[1] \/ (q[1] = o[1] /\ q[2] <= o[2])

\* The pixel the point handed to peak_find lies in
Clicked == PixelOf(ctl.disp, last.pt)

Refined ==
    /\ pc = "dialog" /\ last.op = "render_cell"
    /\ gwy_data_field_inside(ctl.disp, Clicked[1], Clicked[2])

\* C18 as claimed: the peak stored is that of the pixel of the window that
\* holds its greatest sample and, of these, is met first in row-major order.
C18_RowMajorTieBreak ==
    (Refined /\ Window(ctl.disp, Clicked, ctl.rpx) # {}) =>
        ctl.p[1] = PeakAt(ctl.disp,
                          RowMajorFirst(Maxima(ctl.disp, Window(ctl.disp, Clicked, ctl.rpx))))

\* C18 as amended: the peak stored is that of a pixel that holds the
\* greatest sample of the window and the clicked pixel: the clicked pixel
\* if it is one of them, otherwise the one met first in column-major order.
C18_ColumnMajorTieBreak ==
    Refined =>
        LET M == Maxima(ctl.disp, Window(ctl.disp, Clicked, ctl.rpx) \cup {Clicked})
        IN  ctl.p[1] = PeakAt(ctl.disp, IF Clicked \in M THEN Clicked ELSE ColumnMajorFirst(M))

\* C18 witness: two pixels of the window hold its greatest sample, the
\* clicked pixel holds less, and the peak stored is that of the one met
\* first by columns, which is not the one met first by rows.
C18_Witness ==
    /\ Refined
    /\ Clicked \notin Maxima(ctl.disp, Window(ctl.disp, Clicked, ctl.rpx) \cup {Clicked})
    /\ ColumnMajorFirst(Maxima(ctl.disp, Window(ctl.disp, Clicked, ctl.rpx)))
         # RowMajorFirst(Maxima(ctl.disp, Window(ctl.disp, Clicked, ctl.rpx)))
    /\ ctl.p[1] = PeakAt(ctl.disp,
                         ColumnMajorFirst(Maxima(ctl.disp, Window(ctl.disp, Clicked, ctl.rpx))))

\* The centre pixel of the area that preview() extracts from the spectrum
ExtractCentre(offt, zoom) ==
    <<preview_col(offt, zoom) + (preview_width(offt, zoom) - 1) \div 2,
      preview_row(offt, zoom) + (preview_height(offt, zoom) - 1) \div 2>>

\* The area that preview() extracts has an odd size and lies in the spectrum
ExtractInside(offt, zoom) ==
    /\ preview_width(offt, zoom) % 2 = 1 /\ preview_height(offt, zoom) % 2 = 1
    /\ preview_col(offt, zoom) >= 0 /\ preview_row(offt, zoom) >= 0
    /\ preview_col(offt, zoom) + preview_width(offt, zoom) <= offt.xres
    /\ preview_row(offt, zoom) + preview_height(offt, zoom) <= offt.yres

\* C19: while zoom x2 is shown, the area extracted from the spectrum has
\* the odd size (xres/2)|1 by (yres/2)|1, lies inside the spectrum, and its
\* centre pixel is the centre pixel (xres/2, yres/2) of the spectrum.
C19_ZoomGeometry ==
    (pc = "dialog" /\ ctl.args.zoom_mode = ZOOM_2) =>
        /\ ExtractInside(heap.offt, ZOOM_2)
        /\ ExtractCentre(heap.offt, ZOOM_2) = DCPixel(heap.offt)

\* Every point held has a peak that peak_find has stored
PeaksStored == \A i \in 1..Len(ctl.sel) : ctl.p[i] # UninitPeak

\* C20: a pick, a drawing of the row or a zoom change that starts with the
\* peak of every point held stored makes peak_find read only samples (col, row)
\* of the displayed field, 0 <= col < xres and 0 <= row < yres, the first
\* read at the pixel of the point included, and write only p[0] or p[1].
C20_ReadsInBounds ==
    [][(pc = "dialog" /\ PeaksStored /\ ~ctl.oob) =>
          (~ctl'.oob /\ DOMAIN ctl'.p = 1..2)]_vars

\* C21: after calibration_get_factors a clear Xwarning comes with a stored
\* Xscale that is finite and above zero, and a clear Ywarning with a stored
\* Yscale that is finite and above zero, for every pair of peaks and every
\* positive lattice constant.
C21_ClearFlagUsableFactor ==
    (Solved /\ Positive(ctl.args.lattice)) =>
        /\ ~ctl.args.Xwarning => Positive(ctl.args.Xscale)
        /\ ~ctl.args.Ywarning => Positive(ctl.args.Yscale)

(***************************************************************************)
(* The snapping of one picked point.  A pick emits "changed";              *)
(* selection_changed marks the rows changed and the tree view draws them   *)
(* again, which calls peak_find; when peak_find moves the point it emits   *)
(* "changed" once more.  The tree view draws a row marked changed whenever *)
(* the main loop is idle, hence the weak fairness of SnapRender.           *)
(***************************************************************************)
\* A row is marked changed and has not been drawn since
RowChanged == pc = "dialog" /\ Len(ctl.sel) = 1 /\ (last.op = "pick" \/ ctl.changed)

\* The other zoom radio button is chosen while no point is held
SnapZoom ==
    /\ pc = "dialog"
    /\ Len(ctl.sel) = 0
    /\ \E zoom \in {ZOOM_1, ZOOM_2} \ {ctl.args.zoom_mode} : \E g \in GarbageReads(ctl) :
          ctl' \in zoom_mode_changed(ctl, zoom, heap[calibrate_hcp_dfield], heap.offt, g)
    /\ last' = Ev("zoom")
    /\ UNCHANGED <<pc, settings, heap, ranges, channels, hist, nsaves, nev>>

\* The point is picked
SnapPick ==
    /\ pc = "dialog"
    /\ Len(ctl.sel) = 0
    /\ \E pt \in PickPoints(ctl.view) : ctl' = [ctl EXCEPT !.sel = <<pt>>]
    /\ last' = Ev("pick")
    /\ UNCHANGED <<pc, settings, heap, ranges, channels, hist, nsaves, nev>>

\* The tree view draws the X cell of the row marked changed.  nev counts
\* the drawings modulo 2, so that a drawing that leaves the controls as they
\* were is a step all the same.
SnapRender ==
    /\ RowChanged
    /\ \E g \in GarbageReads(ctl) :
          \E d \in gwy_tool_level3_render_cell([ctl EXCEPT !.changed = FALSE], COLUMN_X, 0, g) :
             /\ ctl' = d
             /\ pc' = IF d.crashed THEN "crashed" ELSE "dialog"
    /\ last' = [Ev("render_cell") EXCEPT !.pt = ctl.sel[1]]
    /\ nev' = (nev + 1) % 2
    /\ UNCHANGED <<settings, heap, ranges, channels, hist, nsaves>>

NextSnap ==
    \/ SnapZoom
    \/ SnapPick
    \/ SnapRender

\* A drawing seen from outside: among the steps of NextSnap only SnapRender
\* changes nev, and it can be taken exactly when RowChanged holds, so weak
\* fairness of SnapDrawn is weak fairness of SnapRender.
SnapDrawn == RowChanged /\ nev' = (nev + 1) % 2

SpecSnap == InitPeak /\ [][NextSnap]_vars /\ WF_nev(SnapDrawn)

\* The sample of the displayed field under the point held
SampleHeld ==
    gwy_data_field_get_val(ctl.disp, PixelOf(ctl.disp, ctl.sel[1])[1],
                           PixelOf(ctl.disp, ctl.sel[1])[2])

RadiusLower == 0

RadiusUpper == 10

ConfigLatticeEntries ==
    {DInt(2), MkRat(1, 2), DZero, NZero, DInt(-1), NaN, PInf, NInf}

\* The lattice entry is activated
ConfigLattice ==
    \E num \in ConfigLatticeEntries : \E g \in GarbageReads(ctl) :
        Callback({threshold_lattice_changed(ctl, num, g)}, EvNum("lattice", num), hist)

\* The radius adjustment changes its value
ConfigRadius ==
    \E r \in RadiusLower..RadiusUpper :
        /\ r # ctl.rpx
        /\ Callback({[ctl EXCEPT !.rpx = r]}, Ev("radius"), hist)

NextConfig ==
    \/ CalibrateHcp
    \/ ConfigLattice
    \/ ConfigRadius
    \/ XscaleChanged
    \/ ResponseClose
    \/ ResponseOK

SpecConfig == Init /\ [][NextConfig]_vars

ConfigValid(lattice, radius) ==
    /\ DGt(lattice, DZero)
    /\ ~DIsZero(DMul(DSqrt(DInt(3)), lattice))
    /\ radius \in RadiusLower..RadiusUpper

\* C23: after every step, from the empty settings on, the lattice constant
\* of the dialog and the one saved are above zero, so that
\* sqrt(3) * lattice is no zero divisor, the radius of the dialog and the
\* one saved are within 0..10, and a lattice entry that is not above zero
\* has left lattice, Xscale and Yscale as they were.
C23_ConfigurationValid ==
    [][/\ pc' = "dialog" => ConfigValid(ctl'.args.lattice, ctl'.rpx)
       /\ settings'.saved => ConfigValid(settings'.lattice, settings'.radius)
       /\ (pc' = "dialog" /\ last'.op = "lattice" /\ ~DGt(last'.num, DZero)) =>
             /\ ctl'.args.lattice = ctl.args.lattice
             /\ ctl'.args.Xscale = ctl.args.Xscale
             /\ ctl'.args.Yscale = ctl.args.Yscale]_vars

\* C23 witness: a second session runs on the lattice constant 2 and the
\* radius 10 that the first one saved, and the lattice entry has just been
\* activated with a number that is not above zero.
C23_Witness ==
    /\ pc = "dialog" /\ last.op = "lattice" /\ ~DGt(last.num, DZero)
    /\ settings.saved /\ settings.lattice = DInt(2) /\ settings.radius = RadiusUpper
    /\ ctl.args.lattice = DInt(2) /\ ctl.rpx = RadiusUpper
====
